---- MODULE Spec2Model ----
(***************************************************************************)
(* ictmon (src/main.rs): a ZeroMQ subscriber records the arrival instant   *)
(* of every message in a mutex-protected VecDeque (the poller task) while  *)
(* a tokio Interval (the interval_task) prunes the queue once per second   *)
(* and prints the moving-average rate.                                     *)
(*                                                                         *)
(* Time. std::time::Instant has nanosecond resolution; the model counts    *)
(* the monotonic clock in units of 1/UnitsPerMs millisecond, so that the   *)
(* truncation to whole milliseconds of line 117 is visible.  The program   *)
(* constants keep their values.                                            *)
(*                                                                         *)
(* Runtime. Both futures are spawned on the tokio 0.1 thread pool, which   *)
(* runs each on a worker thread of its own (the model assumes two or more  *)
(* workers) and catches a panic of a task: the task is dropped, the pool   *)
(* and the other task go on; shutdown_on_idle returns once both are gone.  *)
(* f64 arithmetic is modelled as exact rational arithmetic (a numerator    *)
(* and a denominator); a zero denominator stands for inf / NaN.            *)
(***************************************************************************)
EXTENDS Integers, Sequences, FiniteSets

\* ---- program constants (src/main.rs:19-21) ----
MOVING_AVG_INTERVAL_MS == 60000
INITIAL_SLEEP_MS == 1000
UPDATE_INTERVAL_MS == 1000

\* ---- bounds of the model ----
UnitsPerMs == 2          \* clock resolution: units per millisecond
MaxArrivals == 2         \* messages the transport delivers
MaxAdvances == 2         \* clock jumps besides the warm-up sleep
MaxUptimeMs == 64000     \* the clock stops this long after init

UnitsPerSec == 1000 * UnitsPerMs
Millis(ms) == ms * UnitsPerMs

\* Durations by which the clock is seen to jump between two steps: one tick
\* period, or a whole window and a period.
Jumps ==
    {Millis(UPDATE_INTERVAL_MS),
     Millis(MOVING_AVG_INTERVAL_MS) + Millis(UPDATE_INTERVAL_MS)}

\* thread::sleep sleeps at least the duration asked for: units overslept.
Oversleeps == {0, 1}

NoInstant == -1

VARIABLES
    now,                \* the monotonic clock, Instant::now()
    init,               \* let init = Instant::now()              (line 105)
    pcMain,             \* position of main()
    pcRec,              \* position of the poller closure          (87-98)
    pcEval,             \* position of the interval_task closure   (109-124)
    deadline,           \* next deadline of the Interval
    instant,            \* the tick instant handed to for_each
    window_start,       \* let window_start = instant - interval   (line 111)
    arrival_timestamp,  \* let mut arrival_timestamp: Instant      (line 89)
    queue,              \* the VecDeque<Instant> behind the mutex  (line 84)
    mutex,              \* holder of the mutex: "free", "rec", "eval"
    uptime_ms,          \* let mut uptime_ms: u64 = 0              (line 104)
    printed,            \* the last value handed to print_tps
    nPrinted,           \* number of calls of print_tps
    nTicks,             \* number of ticks the Interval has yielded
    nRecv,              \* number of successful recv_msg
    nAdv,               \* number of clock jumps taken
    history,            \* every timestamp ever pushed, in push order
    evicted,            \* timestamps popped by the prune loop of the tick
                        \* under evaluation (empty between two ticks)
    nEvicted            \* number of pop_front that removed a timestamp

vars == <<now, init, pcMain, pcRec, pcEval, deadline, instant, window_start,
          arrival_timestamp, queue, mutex, uptime_ms, printed, nPrinted,
          nTicks, nRecv, nAdv, history, evicted, nEvicted>>

\* ---- helpers translated from the source ----

Min(a, b) == IF a < b THEN a ELSE b

\* faulty variant: the boundary instant is evicted too
StaleOrEqual(front, ws) == front <= ws

\* queue.front().unwrap() < &window_start                         (line 114)
Stale(front, ws) == front < ws

\* (instant - init).as_secs() * 1000 + subsec_millis()            (line 117)
AsSecs(d) == d \div UnitsPerSec
SubsecMillis(d) == (d % UnitsPerSec) \div UnitsPerMs
\* faulty variant: the whole seconds are forgotten
UptimeMsSubsecOnly(d) == SubsecMillis(d)

UptimeMs(d) == AsSecs(d) * 1000 + SubsecMillis(d)

\* faulty variant: no cap during warm-up, the divisor is always the window
EffectiveMsNoCap(up) == MOVING_AVG_INTERVAL_MS

\* min(MOVING_AVG_INTERVAL_MS, uptime_ms)                         (line 119)
EffectiveMs(up) == Min(MOVING_AVG_INTERVAL_MS, up)

\* queue.len() as f64 / (min(..) as f64 / 1000_f64)              (line 119)
\* n / (ms / 1000) = (n * 1000) / ms
Tps(n, up) == [num |-> n * 1000, den |-> EffectiveMs(up)]

NoTps == [num |-> 0, den |-> 1]

\* ---- initial state: main() has reached line 105 ----
Init ==
    /\ now = 0
    /\ init = 0
    /\ pcMain = "sleep"
    /\ pcRec = "unspawned"
    /\ pcEval = "unspawned"
    /\ deadline = NoInstant
    /\ instant = NoInstant
    /\ window_start = NoInstant
    /\ arrival_timestamp = NoInstant
    /\ queue = <<>>
    /\ mutex = "free"
    /\ uptime_ms = 0
    /\ printed = NoTps
    /\ nPrinted = 0
    /\ nTicks = 0
    /\ nRecv = 0
    /\ nAdv = 0
    /\ history = <<>>
    /\ evicted = <<>>
    /\ nEvicted = 0

\* ---- the clock ----
\* Time passes between two steps of the tasks.  Time that passes in main()
\* before the Interval is created is part of the sleep of line 107, and time
\* that passes between its creation and the spawns delays the first steps of
\* the tasks just as time that passes right after the spawns does.
Advance ==
    /\ pcMain = "wait"
    /\ nAdv < MaxAdvances
    /\ \E d \in Jumps :
        /\ now + d - init <= Millis(MaxUptimeMs)
        /\ now' = now + d
    /\ nAdv' = nAdv + 1
    /\ UNCHANGED <<init, pcMain, pcRec, pcEval, deadline, instant,
                   window_start, arrival_timestamp, queue, mutex, uptime_ms,
                   printed, nPrinted, nTicks, nRecv, history, evicted, nEvicted>>

\* ---- main() ----

\* faulty variant: main does not sleep before it creates the Interval
MainSleepSkipped ==
    /\ pcMain = "sleep"
    /\ pcMain' = "interval"
    /\ UNCHANGED <<now, init, pcRec, pcEval, deadline, instant, window_start,
                   arrival_timestamp, queue, mutex, uptime_ms, printed,
                   nPrinted, nTicks, nRecv, nAdv, history, evicted, nEvicted>>

\* thread::sleep(Duration::from_millis(INITIAL_SLEEP_MS))         (line 107)
MainSleep ==
    /\ pcMain = "sleep"
    /\ \E over \in Oversleeps :
        now' = now + Millis(INITIAL_SLEEP_MS) + over
    /\ pcMain' = "interval"
    /\ UNCHANGED <<init, pcRec, pcEval, deadline, instant, window_start,
                   arrival_timestamp, queue, mutex, uptime_ms, printed,
                   nPrinted, nTicks, nRecv, nAdv, history, evicted, nEvicted>>

\* faulty variant: the Interval starts at init, Interval::new(init, d)
MainNewIntervalAtInit ==
    /\ pcMain = "interval"
    /\ deadline' = init
    /\ pcMain' = "spawn"
    /\ UNCHANGED <<now, init, pcRec, pcEval, instant, window_start,
                   arrival_timestamp, queue, mutex, uptime_ms, printed,
                   nPrinted, nTicks, nRecv, nAdv, history, evicted, nEvicted>>

\* Interval::new_interval(d) = Interval::new(Instant::now() + d, d) (line 109)
MainNewInterval ==
    /\ pcMain = "interval"
    /\ deadline' = now + Millis(UPDATE_INTERVAL_MS)
    /\ pcMain' = "spawn"
    /\ UNCHANGED <<now, init, pcRec, pcEval, instant, window_start,
                   arrival_timestamp, queue, mutex, uptime_ms, printed,
                   nPrinted, nTicks, nRecv, nAdv, history, evicted, nEvicted>>

\* faulty variant: the poller takes the mutex before its loop and keeps it across
\* the blocking recv_msg
MainSpawnPollerLocked ==
    /\ pcMain = "spawn"
    /\ pcMain' = "wait"
    /\ pcRec' = "recv"
    /\ pcEval' = "wait"
    /\ mutex' = "rec"
    /\ UNCHANGED <<now, init, deadline, instant, window_start,
                   arrival_timestamp, queue, uptime_ms, printed,
                   nPrinted, nTicks, nRecv, nAdv, history, evicted, nEvicted>>

\* rt.spawn(poller); rt.spawn(interval_task)                  (lines 126-128)
\* The poller's Delay::new(Instant::now()) of line 87 has elapsed by now.
MainSpawn ==
    /\ pcMain = "spawn"
    /\ pcMain' = "wait"
    /\ pcRec' = "recv"
    /\ pcEval' = "wait"
    /\ UNCHANGED <<now, init, deadline, instant, window_start,
                   arrival_timestamp, queue, mutex, uptime_ms, printed,
                   nPrinted, nTicks, nRecv, nAdv, history, evicted, nEvicted>>

\* rt.shutdown_on_idle().wait().unwrap(): returns when no task is left
\* on the pool, and main returns.                                 (line 129)
MainExit ==
    /\ pcMain = "wait"
    /\ pcRec = "panicked"
    /\ pcEval = "panicked"
    /\ pcMain' = "exited"
    /\ UNCHANGED <<now, init, pcRec, pcEval, deadline, instant, window_start,
                   arrival_timestamp, queue, mutex, uptime_ms, printed,
                   nPrinted, nTicks, nRecv, nAdv, history, evicted, nEvicted>>

\* ---- the poller (Arrival Recorder) ----

\* subscriber.recv_msg(0).unwrap() returns a message              (line 91)
RecvOk ==
    /\ pcRec = "recv"
    /\ nRecv < MaxArrivals
    /\ nRecv' = nRecv + 1
    /\ pcRec' = "stamp"
    /\ UNCHANGED <<now, init, pcMain, pcEval, deadline, instant, window_start,
                   arrival_timestamp, queue, mutex, uptime_ms, printed,
                   nPrinted, nTicks, nAdv, history, evicted, nEvicted>>

\* subscriber.recv_msg(0) returns Err: unwrap() panics.  The pool catches the
\* panic of the task and drops it; nothing else is stopped.        (line 91)
RecvFail ==
    /\ pcRec = "recv"
    /\ pcRec' = "panicked"
    /\ UNCHANGED <<now, init, pcMain, pcEval, deadline, instant, window_start,
                   arrival_timestamp, queue, mutex, uptime_ms, printed,
                   nPrinted, nTicks, nRecv, nAdv, history, evicted, nEvicted>>

\* arrival_timestamp = Instant::now()                             (line 92)
RecStamp ==
    /\ pcRec = "stamp"
    /\ arrival_timestamp' = now
    /\ pcRec' = "lock"
    /\ UNCHANGED <<now, init, pcMain, pcEval, deadline, instant, window_start,
                   queue, mutex, uptime_ms, printed, nPrinted, nTicks, nRecv,
                   nAdv, history, evicted, nEvicted>>

\* faulty variant: the poller goes on to push without waiting for the mutex
RecLockNoWait ==
    /\ pcRec = "lock"
    /\ mutex' = "rec"
    /\ pcRec' = "push"
    /\ UNCHANGED <<now, init, pcMain, pcEval, deadline, instant, window_start,
                   arrival_timestamp, queue, uptime_ms, printed, nPrinted,
                   nTicks, nRecv, nAdv, history, evicted, nEvicted>>

\* let mut queue = arrival_timestamps_recv.lock().unwrap()        (line 94)
RecLock ==
    /\ pcRec = "lock"
    /\ mutex = "free"
    /\ mutex' = "rec"
    /\ pcRec' = "push"
    /\ UNCHANGED <<now, init, pcMain, pcEval, deadline, instant, window_start,
                   arrival_timestamp, queue, uptime_ms, printed, nPrinted,
                   nTicks, nRecv, nAdv, history, evicted, nEvicted>>

\* faulty variant: the timestamp is pushed at the front
PushFront(q, t) == <<t>> \o q

\* faulty variant: the timestamp is pushed twice
PushBackTwice(q, t) == Append(Append(q, t), t)

\* queue.push_back(arrival_timestamp)                             (line 95)
PushBack(q, t) == Append(q, t)

RecPush ==
    /\ pcRec = "push"
    /\ queue' = PushBack(queue, arrival_timestamp)
    /\ history' = Append(history, arrival_timestamp)
    /\ pcRec' = "unlock"
    /\ UNCHANGED <<now, init, pcMain, pcEval, deadline, instant, window_start,
                   arrival_timestamp, mutex, uptime_ms, printed, nPrinted,
                   nTicks, nRecv, nAdv, evicted, nEvicted>>

\* faulty variant: the guard outlives the loop body, the mutex stays locked
RecUnlockKeepsMutex ==
    /\ pcRec = "unlock"
    /\ pcRec' = "recv"
    /\ UNCHANGED <<now, init, pcMain, pcEval, deadline, instant, window_start,
                   arrival_timestamp, queue, mutex, uptime_ms, printed,
                   nPrinted, nTicks, nRecv, nAdv, history, evicted, nEvicted>>

\* the guard `queue` is dropped at the end of the loop body       (line 96)
RecUnlock ==
    /\ pcRec = "unlock"
    /\ mutex' = "free"
    /\ pcRec' = "recv"
    /\ UNCHANGED <<now, init, pcMain, pcEval, deadline, instant, window_start,
                   arrival_timestamp, queue, uptime_ms, printed, nPrinted,
                   nTicks, nRecv, nAdv, history, evicted, nEvicted>>

\* ---- the interval_task (Window Evaluator) ----

\* faulty variant: the Interval re-arms one period after the time of the poll, so a
\* late tick swallows the ticks it overran
NextDeadlineFromNow(dl, nw) == nw + Millis(UPDATE_INTERVAL_MS)

\* Interval::new_interval(Duration::from_millis(UPDATE_INTERVAL_MS)): the
\* Interval re-arms one period after the deadline it has just yielded,
\* whatever the time nw of the poll.                              (line 109)
NextDeadline(dl, nw) == dl + Millis(UPDATE_INTERVAL_MS)

\* Interval::poll: once the deadline has elapsed the stream yields the
\* deadline itself and re-arms; the closure starts with
\* let window_start = instant - interval.                   (lines 109-111)
EvalTick ==
    /\ pcEval = "wait"
    /\ now >= deadline
    /\ instant' = deadline
    /\ deadline' = NextDeadline(deadline, now)
    /\ window_start' = deadline - Millis(MOVING_AVG_INTERVAL_MS)
    /\ nTicks' = nTicks + 1
    /\ pcEval' = "lock"
    /\ UNCHANGED <<now, init, pcMain, pcRec, arrival_timestamp, queue, mutex,
                   uptime_ms, printed, nPrinted, nRecv, nAdv, history,
                   evicted, nEvicted>>

\* The Interval yields Err (timer shut down or at capacity): map_err panics,
\* the pool catches the panic and drops the task.                (line 124)
EvalTimerError ==
    /\ pcEval = "wait"
    /\ pcEval' = "panicked"
    /\ UNCHANGED <<now, init, pcMain, pcRec, deadline, instant, window_start,
                   arrival_timestamp, queue, mutex, uptime_ms, printed,
                   nPrinted, nTicks, nRecv, nAdv, history, evicted, nEvicted>>

\* let mut queue = arrival_timestamps.lock().unwrap()            (line 113)
EvalLock ==
    /\ pcEval = "lock"
    /\ mutex = "free"
    /\ mutex' = "eval"
    /\ pcEval' = "prune"
    /\ UNCHANGED <<now, init, pcMain, pcRec, deadline, instant, window_start,
                   arrival_timestamp, queue, uptime_ms, printed, nPrinted,
                   nTicks, nRecv, nAdv, history, evicted, nEvicted>>

\* while queue.len() > 0 && queue.front().unwrap() < &window_start
PruneCond == Len(queue) > 0 /\ Stale(Head(queue), window_start)

\* faulty variant: the prune loop pops at the back
PopBack(q) == SubSeq(q, 1, Len(q) - 1)

\* queue.pop_front()                                             (line 115)
PopFront(q) == Tail(q)

EvalPop ==
    /\ pcEval = "prune"
    /\ PruneCond
    /\ evicted' = Append(evicted, Head(queue))
    /\ queue' = PopFront(queue)
    /\ nEvicted' = nEvicted + 1
    /\ UNCHANGED <<now, init, pcMain, pcRec, pcEval, deadline, instant,
                   window_start, arrival_timestamp, mutex, uptime_ms, printed,
                   nPrinted, nTicks, nRecv, nAdv, history>>

\* the loop condition is false: the prune loop is over      (lines 114-116)
EvalPruneDone ==
    /\ pcEval = "prune"
    /\ ~PruneCond
    /\ pcEval' = "report"
    /\ UNCHANGED <<now, init, pcMain, pcRec, deadline, instant, window_start,
                   arrival_timestamp, queue, mutex, uptime_ms, printed,
                   nPrinted, nTicks, nRecv, nAdv, history, evicted, nEvicted>>

\* uptime_ms = ...; print_tps(queue.len() as f64 / ...)     (lines 117-120)
\* Both run inside the block of the guard: the mutex is still held.
EvalReport ==
    /\ pcEval = "report"
    /\ uptime_ms' = UptimeMs(instant - init)
    /\ printed' = Tps(Len(queue), uptime_ms')
    /\ nPrinted' = nPrinted + 1
    /\ pcEval' = "unlock"
    /\ UNCHANGED <<now, init, pcMain, pcRec, deadline, instant, window_start,
                   arrival_timestamp, queue, mutex, nTicks, nRecv, nAdv,
                   history, evicted, nEvicted>>

\* end of the block: the guard is dropped; Ok(()) and the stream is polled
\* again.                                                    (lines 121-122)
EvalUnlock ==
    /\ pcEval = "unlock"
    /\ mutex' = "free"
    /\ evicted' = <<>>
    /\ pcEval' = "wait"
    /\ UNCHANGED <<now, init, pcMain, pcRec, deadline, instant, window_start,
                   arrival_timestamp, queue, uptime_ms, printed, nPrinted,
                   nTicks, nRecv, nAdv, history, nEvicted>>

Next ==
    \/ Advance
    \/ MainSleep
    \/ MainNewInterval
    \/ MainSpawn
    \/ MainExit
    \/ RecvOk
    \/ RecvFail
    \/ RecStamp
    \/ RecLock
    \/ RecPush
    \/ RecUnlock
    \/ EvalTick
    \/ EvalTimerError
    \/ EvalLock
    \/ EvalPop
    \/ EvalPruneDone
    \/ EvalReport
    \/ EvalUnlock

Spec == Init /\ [][Next]_vars

\* The steps the poller takes by itself once a message has arrived, and the
\* steps the interval_task takes by itself once its deadline has elapsed.
RecNext == RecStamp \/ RecLock \/ RecPush \/ RecUnlock
EvalNext ==
    EvalTick \/ EvalLock \/ EvalPop \/ EvalPruneDone \/ EvalReport \/ EvalUnlock

\* Each task has a worker thread of its own and the scheduling is fair: a
\* task that can take a step again and again (a step that waits for the
\* mutex can be taken whenever the mutex is free) does take it.  Nothing
\* obliges the transport to deliver or to fail, the timer to fail, or the
\* clock to jump.
FairSpec == Spec /\ SF_vars(RecNext) /\ SF_vars(EvalNext)

TypeOK ==
    /\ pcMain \in {"sleep", "interval", "spawn", "wait", "exited"}
    /\ pcRec \in {"unspawned", "recv", "stamp", "lock", "push", "unlock", "panicked"}
    /\ pcEval \in {"unspawned", "wait", "lock", "prune", "report", "unlock", "panicked"}
    /\ mutex \in {"free", "rec", "eval"}
    /\ Len(queue) <= MaxArrivals
\* ======================= properties =======================

WindowUnits == Millis(MOVING_AVG_INTERVAL_MS)

\* The evaluation of the current tick has just handed its rate to print_tps;
\* the mutex is still held, so Len(queue) is the count N it used.
Reported == pcEval = "unlock"

\* a / b = c / d for two quotients with non-zero divisors
SameQuotient(a, b, c, d) == b # 0 /\ d # 0 /\ a * d = c * b

CountIn(S) == Cardinality({i \in DOMAIN history : history[i] \in S})
CountFrom(lo) == Cardinality({i \in DOMAIN history : history[i] >= lo})

\* C1 (as claimed): at every tick at instant T the count N used for the rate
\* is the number of pushed timestamps t with T - window < t <= T.
C1_WindowCountHalfOpen ==
    Reported =>
        Len(queue) = Cardinality({i \in DOMAIN history :
            instant - WindowUnits < history[i] /\ history[i] <= instant})

\* C1 (amended): at every tick at instant T the count N used for the rate is
\* the number of timestamps pushed so far that are >= T - window: the
\* boundary instant T - window is counted, and so is a timestamp later than T
\* that was pushed before a late tick took the mutex.
C1_WindowCountFromBoundary ==
    Reported =>
        /\ Len(queue) = CountFrom(instant - WindowUnits)
        /\ printed.num = 1000 * CountFrom(instant - WindowUnits)

\* witness of C1: a late tick has evicted one timestamp and counted another
\* that is later than the tick instant.
C1_Witness ==
    /\ Reported
    /\ Len(evicted) > 0
    /\ Len(queue) > 0
    /\ queue[Len(queue)] > instant

\* C2: right after the prune loop of a tick at T, with the mutex held, every
\* remaining timestamp is >= T - window and every timestamp the loop removed
\* was < T - window.
C2_MonotonicEviction ==
    pcEval \in {"report", "unlock"} =>
        /\ mutex = "eval"
        /\ \A i \in DOMAIN queue : queue[i] >= instant - WindowUnits
        /\ \A i \in DOMAIN evicted : evicted[i] < instant - WindowUnits

\* witness of C2: a prune loop that removed one timestamp and kept another
C2_Witness ==
    /\ pcEval = "report"
    /\ Len(evicted) > 0
    /\ Len(queue) > 0

\* C3 (as claimed): the value handed to print_tps is
\* N / (min(window, T - init) in seconds).
C3_RateExactElapsed ==
    Reported =>
        SameQuotient(printed.num, printed.den,
                     Len(queue) * UnitsPerSec,
                     Min(WindowUnits, instant - init))

\* C3 (amended): the value handed to print_tps is N / (min(window, E) in
\* seconds) where E is T - init truncated to whole milliseconds; during
\* warm-up the divisor is E and not the window.
C3_RateTruncatedElapsed ==
    Reported =>
        LET E == (instant - init) \div UnitsPerMs
        IN  /\ SameQuotient(printed.num, printed.den,
                            Len(queue) * 1000,
                            IF E < MOVING_AVG_INTERVAL_MS THEN E
                            ELSE MOVING_AVG_INTERVAL_MS)
            /\ E < MOVING_AVG_INTERVAL_MS => printed.den = E

\* witness of C3: a non-zero rate reported during warm-up at an instant that
\* is not a whole number of milliseconds after init
C3_Witness ==
    /\ Reported
    /\ Len(queue) > 0
    /\ instant - init < WindowUnits
    /\ (instant - init) % UnitsPerMs # 0

\* C4 (as claimed): once recv_msg has failed, the process terminates: no
\* further tick is evaluated and no further rate is handed to print_tps.
C4_TransportFaultIsFatal ==
    [][pcRec = "panicked" => (nTicks' = nTicks /\ nPrinted' = nPrinted)]_vars

\* C6: the queue is non-decreasing from front to back in every state.
C6_QueueOrdered ==
    \A i, j \in DOMAIN queue : i < j => queue[i] <= queue[j]

\* witness of C6: two timestamps taken at different instants are queued
\* and the interval_task has started evaluating
C6_Witness ==
    /\ Len(queue) >= 2
    /\ queue[1] < queue[2]
    /\ nTicks > 0

\* C7: when the queue is empty after the prune loop of a tick, the rate
\* handed to print_tps is exactly 0: the divisor is not zero (0.0 / 0.0 is
\* NaN), and the evaluation is at the end of its block, about to release
\* the mutex.
C7_ZeroArrivalSafety ==
    (Reported /\ Len(queue) = 0) =>
        /\ printed.den # 0
        /\ printed.num = 0
        /\ mutex = "eval"

\* witness of C7: a tick whose prune loop emptied the queue
C7_Witness ==
    /\ Reported
    /\ Len(queue) = 0
    /\ Len(evicted) > 0
Period == Millis(UPDATE_INTERVAL_MS)

\* The first deadline of the Interval is one period after its creation.
\* ElapsedTicks is the number of tick instants that lie at or before now.
ElapsedTicks(first) ==
    IF now < first THEN 0 ELSE (now - first) \div Period + 1

\* The timer has failed and the interval_task is gone.
TimerFailed == pcEval = "panicked"

\* The transport is idle: no message has arrived and recv_msg has not failed.
Idle == nRecv = 0 /\ pcRec # "panicked"

C9_NoTickDroppedOrCoalesced ==
    /\ [](/\ nPrinted <= nTicks
          /\ nTicks <= nPrinted + 1
          /\ pcEval \in {"unspawned", "wait", "panicked"} => nPrinted = nTicks
          /\ pcEval \in {"lock", "prune", "report"} => nPrinted = nTicks - 1)
    /\ [](nTicks > 0 => instant <= now)
    /\ [][nTicks' # nTicks =>
            /\ nTicks' = nTicks + 1
            /\ nTicks > 0 => instant' = instant + Period]_vars
    /\ [][nPrinted' # nPrinted => (nPrinted' = nPrinted + 1 /\ nTicks' = nTicks)]_vars
    /\ []<>(\/ TimerFailed
            \/ pcEval = "unspawned"
            \/ nPrinted = ElapsedTicks(deadline - nTicks * Period))

\* witness of C9: a tick has been evaluated while the next one is overdue
C9_Witness ==
    /\ Reported
    /\ nPrinted >= 2
    /\ now >= deadline + Period

\* C10: a task that asks for the mutex gets it: every message received is
\* eventually pushed, which takes the mutex, and every tick yielded is
\* eventually evaluated and reported, which takes the mutex too; so the two
\* tasks are never both stuck at the mutex.
C10_DeadlockFreedom ==
    /\ (pcRec \in {"stamp", "lock"}) ~> (pcRec = "unlock" /\ Len(history) = nRecv)
    /\ (pcEval = "lock") ~> (pcEval = "unlock" /\ nPrinted = nTicks)

\* witness of C10: the poller asks for the mutex while the interval_task
\* holds it in its prune loop
C10_Witness ==
    /\ pcRec = "lock"
    /\ pcEval = "prune"
    /\ mutex = "eval"
    /\ Len(queue) > 0
\* C11: the poller holds the mutex in no state in which it is blocked in or
\* about to call recv_msg, or is taking the timestamp; it takes the mutex
\* only with a received message and its timestamp in hand, pushes once and
\* gives the mutex back before the next recv_msg.
C11_RecorderLockDiscipline ==
    /\ [](mutex = "rec" <=> pcRec \in {"push", "unlock"})
    /\ [][(mutex # "rec" /\ mutex' = "rec") =>
            /\ pcRec = "lock"
            /\ arrival_timestamp # NoInstant
            /\ Len(history) = nRecv - 1]_vars
    /\ [][(mutex = "rec" /\ mutex' # "rec") =>
            /\ mutex' = "free"
            /\ pcRec' = "recv"
            /\ Len(history) = nRecv
            /\ history[Len(history)] = arrival_timestamp]_vars
    /\ [][nRecv' # nRecv => mutex # "rec"]_vars

\* witness of C11: the poller is back in recv_msg after a push, the mutex
\* is free
C11_Witness ==
    /\ pcRec = "recv"
    /\ Len(history) > 0
    /\ mutex = "free"

\* The poller is between a successful recv_msg and the push of its timestamp.
ReceiveToAppend == pcRec \in {"stamp", "lock", "push"}

\* C12: every message received puts exactly one timestamp in the queue:
\* outside the receive-to-append step the queue holds as many timestamps as
\* messages were received, less the ones evicted (one fewer inside the step).
C12_OneTimestampPerMessage ==
    /\ ~ReceiveToAppend => Len(queue) = nRecv - nEvicted
    /\ ReceiveToAppend => Len(queue) = nRecv - 1 - nEvicted

\* witness of C12: two messages received and pushed, one timestamp evicted
C12_Witness ==
    /\ pcRec = "recv"
    /\ nRecv = 2
    /\ nEvicted = 1
    /\ Len(queue) = 1
\* C13 (as claimed): once the Interval has yielded an error the process
\* terminates: the poller receives no further message and pushes no further
\* timestamp.
C13_SchedulingFaultIsFatal ==
    [][TimerFailed => (nRecv' = nRecv /\ queue' = queue)]_vars

\* The interval_task is evaluating a tick: between the yield of the tick and
\* the end of the closure.
Evaluating == pcEval \in {"lock", "prune", "report", "unlock"}

\* C14: no tick is evaluated before the warm-up sleep has elapsed since init,
\* and every tick instant T, the first one included, has
\* T - init >= INITIAL_SLEEP_MS.
C14_WarmUpGating ==
    /\ Evaluating => now - init >= Millis(INITIAL_SLEEP_MS)
    /\ nTicks > 0 => instant - init >= Millis(INITIAL_SLEEP_MS)
    /\ nPrinted > 0 => nTicks > 0

\* witness of C14: the first tick has just been yielded
C14_Witness ==
    /\ nTicks = 1
    /\ pcEval = "lock"
    /\ nPrinted = 0

\* C15 (as claimed): the interval_task has released the mutex when it
\* computes the rate and hands it to print_tps, so the poller never waits
\* for the mutex during print_tps.
C15_LockReleasedBeforePrint ==
    [][nPrinted' # nPrinted => (mutex # "eval" /\ mutex' # "eval")]_vars
\* The critical sections: the poller between lock() and the drop of its
\* guard, the interval_task between lock() and the end of its block.
RecInCS == pcRec \in {"push", "unlock"}
EvalInCS == pcEval \in {"prune", "report", "unlock"}

\* C16: the poller and the interval_task are never in their critical
\* sections together; nothing is pushed from the first pop of a prune loop
\* to the end of the tick, so the count behind the rate handed to print_tps
\* is the length of the queue as the prune loop left it.
C16_MutualExclusionAtomicPrune ==
    /\ [](~(RecInCS /\ EvalInCS))
    /\ [][EvalInCS => history' = history]_vars
    /\ [][(pcEval = "report" /\ pcEval' # "report") =>
            /\ queue' = queue
            /\ printed'.num = 1000 * Len(queue)]_vars

\* witness of C16: the poller waits at lock() with a timestamp while the
\* interval_task is between its last pop and the length read
C16_Witness ==
    /\ pcEval = "report"
    /\ Len(evicted) > 0
    /\ pcRec = "lock"

\* C17: a step of the poller that changes the queue appends one timestamp
\* and keeps the rest; a step of the interval_task that changes the queue
\* removes its head; no other step changes it.  Timestamps leave in the order
\* they were pushed: the ones evicted are a prefix of the push history, the
\* queue is the suffix that follows it.
C17_FifoFrame ==
    /\ [][queue' # queue =>
            \/ /\ pcRec = "push"
               /\ queue' = Append(queue, arrival_timestamp)
               /\ UNCHANGED <<pcEval, evicted, nEvicted>>
            \/ /\ pcEval = "prune"
               /\ queue # <<>>
               /\ queue' = Tail(queue)
               /\ evicted' = Append(evicted, Head(queue))
               /\ UNCHANGED <<pcRec, history>>]_vars
    /\ [](/\ nEvicted + Len(queue) = Len(history)
          /\ \A i \in DOMAIN queue : queue[i] = history[nEvicted + i]
          /\ Len(evicted) <= nEvicted
          /\ \A i \in DOMAIN evicted :
                evicted[i] = history[nEvicted - Len(evicted) + i])

\* witness of C17: of two timestamps pushed the first has been evicted and
\* the second is still queued
C17_Witness ==
    /\ Len(history) = 2
    /\ nEvicted = 1
    /\ Len(queue) = 1
    /\ history[1] < history[2]

\* C18: at every tick uptime_ms is at least INITIAL_SLEEP_MS +
\* UPDATE_INTERVAL_MS, it never decreases, and the divisor
\* min(MOVING_AVG_INTERVAL_MS, uptime_ms) of the rate is never zero.
C18_UptimePositive ==
    /\ [](nPrinted > 0 =>
            /\ uptime_ms >= INITIAL_SLEEP_MS + UPDATE_INTERVAL_MS
            /\ printed.den > 0
            /\ printed.den <= uptime_ms)
    /\ [][uptime_ms' >= uptime_ms]_vars
    /\ [][nPrinted' # nPrinted => uptime_ms' > 0]_vars

\* witness of C18: the first tick reported with the smallest uptime there is
C18_Witness ==
    /\ Reported
    /\ nPrinted = 1
    /\ uptime_ms = INITIAL_SLEEP_MS + UPDATE_INTERVAL_MS
====
